---- MODULE Spec2Model ----
(***************************************************************************)
(* Sliding-tile puzzle solver: Board.py (SlideBoard, _manhattan_distance)  *)
(* and Solver.py (Fringe family, _graph_search and its four instances).    *)
(*                                                                         *)
(* Python objects live in `heap`, a sequence of SlideBoard records; a      *)
(* reference is an index into it and None is the reference to no object.   *)
(* A Python string is a sequence of one-character strings; positions are   *)
(* 0-based as in the source, so tiles[i] of the source is tiles[i + 1].    *)
(***************************************************************************)
EXTENDS Integers, Sequences, FiniteSets, TLC

VARIABLES
    pc,         \* position in the running function
    alg,        \* name of the algorithm (key of Tester._ALGORITHMS)
    input,      \* arguments of SlideBoard.create: <<str_rep, n>>
    heap,       \* the SlideBoard objects created so far
    fringe,     \* the Fringe object of the run
    expanded,   \* the expanded set (references)
    node,       \* local `node` of _graph_search
    result,     \* the returned tuple, <<>> before the return
    adds,       \* history: number of Fringe.add calls completed
    removed,    \* history: references returned by Fringe.remove, in order
    order,      \* history: references passed to expanded.add, in order
    peak        \* history: largest len(fringe) seen after a Fringe.add

vars == <<pc, alg, input, heap, fringe, expanded, node, result,
          adds, removed, order, peak>>

None == -1

Range(seq) == {seq[i] : i \in 1..Len(seq)}

abs(x) == IF x < 0 THEN -x ELSE x

min(a, b) == IF a <= b THEN a ELSE b

max(a, b) == IF a >= b THEN a ELSE b

\* a local of the source: v is computed once and F applied to its value
Bind(v, F(_)) == CHOOSE r \in {F(x) : x \in {v}} : TRUE

(***************************************************************************)
(* Board.py                                                                *)
(***************************************************************************)

\* str.index / `in` on strings: first 0-based position; ValueError if absent
index_raises(seq, x) == x \notin Range(seq)

index(seq, x) ==
    CHOOSE i \in 0..(Len(seq) - 1) :
        seq[i + 1] = x /\ \A j \in 0..(i - 1) : seq[j + 1] # x

\* SlideBoard.__init__; writes is history: the number of assignments to
\* _heuristic made after construction
SlideBoard(tiles, n, space_ind, depth, parent) ==
    [tiles |-> tiles, n |-> n, space_ind |-> space_ind,
     heuristic |-> None, depth |-> depth, parent |-> parent, writes |-> 0]

\* create without the duplicate check
create_error_no_duplicates(str_rep, n) ==
    IF n <= 0 THEN "Board size must be positive."
    ELSE IF Len(str_rep) # n * n
         THEN "An n x n board must specify n^2 spaces."
    ELSE IF " " \notin Range(str_rep)
         THEN "A board must include a blank space (space key)."
    ELSE ""

\* the four checks of SlideBoard.create, in order; "" when none fails
create_error(str_rep, n) ==
    IF n <= 0 THEN "Board size must be positive."
    ELSE IF Len(str_rep) # n * n
         THEN "An n x n board must specify n^2 spaces."
    ELSE IF " " \notin Range(str_rep)
         THEN "A board must include a blank space (space key)."
    ELSE IF Cardinality(Range(str_rep)) # Len(str_rep)
         THEN "A board must have no duplicate tiles."
    ELSE ""

BadBoard(str_rep, n) == create_error(str_rep, n) # ""

\* the root built at depth 1, as if depth counted nodes
create_depth_one(str_rep, n) ==
    SlideBoard(str_rep, n, index(str_rep, " "), 1, None)

\* SlideBoard.create when no check fails
create(str_rep, n) == SlideBoard(str_rep, n, index(str_rep, " "), 0, None)

\* equality on the blank's position instead of the tiles
eq_space_ind(a, b) == a.space_ind = b.space_ind

\* SlideBoard.__eq__ (every object of the model is a SlideBoard)
eq(a, b) == a.tiles = b.tiles

\* _manhattan_distance raises ValueError when a tile of first is not in second
manhattan_raises(first, second) ==
    \E i \in 1..Len(first.tiles) :
        first.tiles[i] # " " /\ index_raises(second.tiles, first.tiles[i])

\* the sum with the blank counted as a tile
RECURSIVE manhattan_with_blank(_, _, _)
manhattan_with_blank(first, second, ind) ==
    IF ind >= Len(first.tiles) THEN 0
    ELSE LET tile == first.tiles[ind + 1]
             y1 == ind \div first.n
             x1 == ind % first.n
             c2 == index(second.tiles, tile)
             y2 == c2 \div first.n
             x2 == c2 % first.n
         IN  abs(y2 - y1) + abs(x2 - x1)
               + manhattan_with_blank(first, second, ind + 1)

RECURSIVE manhattan_from(_, _, _)
manhattan_from(first, second, ind) ==
    IF ind >= Len(first.tiles) THEN 0
    ELSE LET tile == first.tiles[ind + 1]
         IN  IF tile = " "
             THEN manhattan_from(first, second, ind + 1)
             ELSE LET y1 == ind \div first.n
                      x1 == ind % first.n
                      c2 == index(second.tiles, tile)
                      y2 == c2 \div first.n
                      x2 == c2 % first.n
                  IN  abs(y2 - y1) + abs(x2 - x1)
                        + manhattan_from(first, second, ind + 1)

_manhattan_distance(first, second) == manhattan_from(first, second, 0)

\* Python slice s[lo:hi] for 0 <= lo, hi <= len(s)
slice(s, lo, hi) == SubSeq(s, lo + 1, hi)

\* _space_move giving the successor its parent's depth
_space_move_same_depth(h, self, check, new_pos) ==
    IF ~check THEN [heap |-> h, ref |-> None]
    ELSE LET me == h[self]
             min_pos == min(me.space_ind, new_pos)
             max_pos == max(me.space_ind, new_pos)
             swapped == slice(me.tiles, 0, min_pos)
                          \o <<me.tiles[max_pos + 1]>>
                          \o slice(me.tiles, min_pos + 1, max_pos)
                          \o <<me.tiles[min_pos + 1]>>
                          \o slice(me.tiles, max_pos + 1, Len(me.tiles))
         IN  [heap |-> Append(h, SlideBoard(swapped, me.n, new_pos,
                                            me.depth, self)),
              ref |-> Len(h) + 1]

\* SlideBoard._space_move: a new object, or None; self is a reference
_space_move(h, self, check, new_pos) ==
    IF ~check THEN [heap |-> h, ref |-> None]
    ELSE LET me == h[self]
             min_pos == min(me.space_ind, new_pos)
             max_pos == max(me.space_ind, new_pos)
             swapped == slice(me.tiles, 0, min_pos)
                          \o <<me.tiles[max_pos + 1]>>
                          \o slice(me.tiles, min_pos + 1, max_pos)
                          \o <<me.tiles[min_pos + 1]>>
                          \o slice(me.tiles, max_pos + 1, Len(me.tiles))
         IN  [heap |-> Append(h, SlideBoard(swapped, me.n, new_pos,
                                            me.depth + 1, self)),
              ref |-> Len(h) + 1]

\* space_up with the first-row test off by one
space_up_strict(h, self) ==
    _space_move(h, self, h[self].space_ind > h[self].n,
                h[self].space_ind - h[self].n)

space_up(h, self) ==
    _space_move(h, self, h[self].space_ind >= h[self].n,
                h[self].space_ind - h[self].n)

space_down(h, self) ==
    _space_move(h, self,
                h[self].space_ind < h[self].n * h[self].n - h[self].n,
                h[self].space_ind + h[self].n)

space_left(h, self) ==
    _space_move(h, self, h[self].space_ind % h[self].n # 0,
                h[self].space_ind - 1)

\* space_right with the last-column test off by one
space_right_strict(h, self) ==
    _space_move(h, self, h[self].space_ind % h[self].n < h[self].n - 2,
                h[self].space_ind + 1)

space_right(h, self) ==
    _space_move(h, self, h[self].space_ind % h[self].n # h[self].n - 1,
                h[self].space_ind + 1)

\* SlideBoard.generate_heuristic: the heap after the write
generate_heuristic(h, self, goal) ==
    [h EXCEPT ![self].heuristic = _manhattan_distance(h[self], h[goal]),
              ![self].writes = @ + 1]

(***************************************************************************)
(* Solver.py: the Fringe family                                            *)
(***************************************************************************)

\* Fringe.__init__ with the creation count starting at zero
Fringe_counts_root(kind, uses_heuristic, f) ==
    [kind |-> kind, uses_heuristic |-> uses_heuristic, f |-> f,
     items |-> <<>>, num_created |-> 0, max_fringe |-> 0]

\* Fringe.__init__ with the subclass's empty container
Fringe(kind, uses_heuristic, f) ==
    [kind |-> kind, uses_heuristic |-> uses_heuristic, f |-> f,
     items |-> <<>>, num_created |-> -1, max_fringe |-> 0]

\* a queue asking for heuristics
Queue_uses_heuristic == Fringe("Queue", TRUE, "none")

Queue == Fringe("Queue", FALSE, "none")

Stack == Fringe("Stack", FALSE, "none")

\* f names the injected function: "h" (GBFS) or "g+h" (AStar)
PriorityQueue(f) == Fringe("PriorityQueue", TRUE, f)

\* the lambdas of GBFS and AStar
f_value(f, state) ==
    IF f = "h" THEN state.heuristic ELSE state.depth + state.heuristic

\* the key without the negation
_f_not_negated(f, state) == f_value(f, state)

\* PriorityQueue._f: f negated
_f(f, state) == 0 - f_value(f, state)

\* bisect.bisect_right: the insertion point after the equal keys
RECURSIVE bisect_right(_, _, _, _, _, _)
bisect_right(h, f, a, x, lo, hi) ==
    IF lo < hi
    THEN LET mid == (lo + hi) \div 2
         IN  IF x < _f(f, h[a[mid + 1]])
             THEN bisect_right(h, f, a, x, lo, mid)
             ELSE bisect_right(h, f, a, x, mid + 1, hi)
    ELSE lo

\* bisect.bisect_left(a, x, lo, hi, key=...)
RECURSIVE bisect_left(_, _, _, _, _, _)
bisect_left(h, f, a, x, lo, hi) ==
    IF lo < hi
    THEN LET mid == (lo + hi) \div 2
         IN  IF _f(f, h[a[mid + 1]]) < x
             THEN bisect_left(h, f, a, x, mid + 1, hi)
             ELSE bisect_left(h, f, a, x, lo, mid)
    ELSE lo

\* the insertion without the bisection: at the right end
insort_at_end(h, f, a, state) == Append(a, state)

\* bisect.insort_left(a, state, key=self._f)
insort_left(h, f, a, state) ==
    Bind(bisect_left(h, f, a, _f(f, h[state]), 0, Len(a)), LAMBDA lo :
         slice(a, 0, lo) \o <<state>> \o slice(a, lo, Len(a)))

\* the queue adding with appendleft()
_add_front(h, fr, state) ==
    IF fr.kind = "PriorityQueue"
    THEN insort_left(h, fr.f, fr.items, state)
    ELSE IF fr.kind = "Queue" THEN <<state>> \o fr.items
    ELSE Append(fr.items, state)

\* Queue._add / Stack._add / PriorityQueue._add
_add(h, fr, state) ==
    IF fr.kind = "PriorityQueue"
    THEN insort_left(h, fr.f, fr.items, state)
    ELSE Append(fr.items, state)

\* Fringe.add; raised when generate_heuristic raises
add(h, fr, state, goal) ==
    IF fr.uses_heuristic /\ manhattan_raises(h[state], h[goal])
    THEN [heap |-> h, fringe |-> fr, raised |-> TRUE]
    ELSE Bind(IF fr.uses_heuristic
              THEN generate_heuristic(h, state, goal) ELSE h, LAMBDA h1 :
         Bind(_add(h1, fr, state), LAMBDA items1 :
              [heap |-> h1,
               fringe |-> [fr EXCEPT !.items = items1,
                                     !.num_created = fr.num_created + 1,
                                     !.max_fringe =
                                         IF Len(items1) > fr.max_fringe
                                         THEN Len(items1)
                                         ELSE fr.max_fringe],
               raised |-> FALSE]))

\* every fringe removing with pop()
_remove_pop(fr) ==
    [fringe |-> [fr EXCEPT !.items = SubSeq(fr.items, 1, Len(fr.items) - 1)],
     ref |-> fr.items[Len(fr.items)]]

\* Queue._remove (popleft) / Stack._remove, PriorityQueue._remove (pop)
_remove(fr) ==
    IF fr.kind = "Queue"
    THEN [fringe |-> [fr EXCEPT !.items = Tail(fr.items)],
          ref |-> Head(fr.items)]
    ELSE [fringe |-> [fr EXCEPT !.items =
                                  SubSeq(fr.items, 1, Len(fr.items) - 1)],
          ref |-> fr.items[Len(fr.items)]]

\* Fringe.remove
remove(fr) ==
    IF Len(fr.items) > 0 THEN _remove(fr) ELSE [fringe |-> fr, ref |-> None]

(***************************************************************************)
(* Solver.py: the driver.  A frame holds the heap and the locals of one    *)
(* call of _graph_search; start_state and goal_state are its arguments.    *)
(***************************************************************************)

start_state == 1

goal_state == 2

Algorithms == {"BFS", "DFS", "GBFS", "AStar"}

\* the fringe each algorithm passes to _graph_search
new_fringe(a) ==
    IF a = "BFS" THEN Queue
    ELSE IF a = "DFS" THEN Stack
    ELSE IF a = "GBFS" THEN PriorityQueue("h")
    ELSE PriorityQueue("g+h")

\* membership by object identity, as without __eq__ and __hash__
contains_identity(h, exp, x) == x \in exp

\* `x in expanded`: set membership through __hash__ and __eq__
contains(h, exp, x) == \E e \in exp : e = x \/ eq(h[e], h[x])

\* a call raising leaves the function; the frame only records it
raise(s) == [s EXCEPT !.pc = "raised"]

\* lines 137-138
begin(s) ==
    Bind(add(s.heap, s.fringe, start_state, goal_state), LAMBDA r :
         IF r.raised THEN raise(s)
         ELSE [s EXCEPT !.heap = r.heap, !.fringe = r.fringe,
                        !.expanded = {}, !.pc = "loop"])

\* the tuple with num_created and len(expanded) in each other's place
success_swapped(h, nd, fr, exp) ==
    <<nd, h[nd].depth, Cardinality(exp), fr.num_created, fr.max_fringe>>

\* lines 147-150: the tuple returned on success
success(h, nd, fr, exp) ==
    <<nd, h[nd].depth, fr.num_created, Cardinality(exp), fr.max_fringe>>

\* lines 140-153: one pass from the loop test to expanded.add
loop_body(s) ==
    Bind(remove(s.fringe), LAMBDA rm :
    Bind([s EXCEPT !.fringe = rm.fringe, !.node = rm.ref], LAMBDA s1 :
         IF contains(s.heap, s.expanded, rm.ref)
         THEN s1
         ELSE IF eq(s.heap[rm.ref], s.heap[goal_state])
         THEN [s1 EXCEPT !.pc = "found",
                         !.result = success(s.heap, rm.ref, rm.fringe,
                                            s.expanded)]
         ELSE [s1 EXCEPT !.expanded = s.expanded \cup {rm.ref},
                         !.pc = "up"]))

\* _try_add on the result of a successor function
_try_add(s, successor, next_pc) ==
    Bind(successor, LAMBDA mv :
         IF mv.ref # None /\ ~contains(mv.heap, s.expanded, mv.ref)
         THEN Bind(add(mv.heap, s.fringe, mv.ref, goal_state), LAMBDA r :
                   IF r.raised THEN raise([s EXCEPT !.heap = mv.heap])
                   ELSE [s EXCEPT !.heap = r.heap, !.fringe = r.fringe,
                                  !.pc = next_pc])
         ELSE [s EXCEPT !.heap = mv.heap, !.pc = next_pc])

\* lines 156-159
try_up(s) == _try_add(s, space_up(s.heap, s.node), "down")

try_down(s) == _try_add(s, space_down(s.heap, s.node), "left")

try_left(s) == _try_add(s, space_left(s.heap, s.node), "right")

try_right(s) == _try_add(s, space_right(s.heap, s.node), "loop")

\* the loop not left when the fringe is empty
fail_never(s) == s

\* line 161
fail(s) == [s EXCEPT !.pc = "failed", !.result = <<None, -1, 0, 0, 0>>]

Terminal == {"found", "failed", "raised"}

\* the statement the frame is at
step(s) ==
    IF s.pc = "start" THEN begin(s)
    ELSE IF s.pc = "loop"
         THEN IF Len(s.fringe.items) > 0 THEN loop_body(s) ELSE fail(s)
    ELSE IF s.pc = "up" THEN try_up(s)
    ELSE IF s.pc = "down" THEN try_down(s)
    ELSE IF s.pc = "left" THEN try_left(s)
    ELSE try_right(s)

\* the frame at the call of an algorithm on two created boards
call(a, start, goal) ==
    [pc |-> "start", heap |-> <<start, goal>>, fringe |-> new_fringe(a),
     expanded |-> {}, node |-> None, result |-> <<>>]

\* _graph_search run to its end
RECURSIVE _graph_search(_)
_graph_search(s) == IF s.pc \in Terminal THEN s ELSE _graph_search(step(s))

(***************************************************************************)
(* Reference definitions of the puzzle, independent of the code: cells by  *)
(* row and column, a legal move slides the blank to an adjacent cell.      *)
(***************************************************************************)

RECURSIVE ToSeq(_, _)
ToSeq(fn, k) == IF k = 0 THEN <<>> ELSE Append(ToSeq(fn, k - 1), fn[k])

BlankCell(t) == CHOOSE i \in 1..Len(t) : t[i] = " "

Row(i, n) == (i - 1) \div n

Col(i, n) == (i - 1) % n

Adjacent(i, j, n) ==
    abs(Row(i, n) - Row(j, n)) + abs(Col(i, n) - Col(j, n)) = 1

Swap(t, i, j) ==
    ToSeq([k \in 1..Len(t) |-> IF k = i THEN t[j]
                               ELSE IF k = j THEN t[i] ELSE t[k]], Len(t))

Neighbours(t, n) ==
    {Swap(t, BlankCell(t), j) :
        j \in {c \in 1..Len(t) : Adjacent(BlankCell(t), c, n)}}

\* configurations at most k legal moves away from those of S
RECURSIVE Within(_, _, _)
Within(S, n, k) ==
    IF k = 0 THEN S
    ELSE Within(S \cup UNION {Neighbours(t, n) : t \in S}, n, k - 1)

\* every configuration reachable from t
RECURSIVE Closure(_, _)
Closure(S, n) ==
    LET S1 == S \cup UNION {Neighbours(t, n) : t \in S}
    IN  IF S1 = S THEN S ELSE Closure(S1, n)

Reachable(from, to, n) == to \in Closure({from}, n)

\* least number of legal moves from a configuration of S to `to`, which
\* is reachable from S; d is the distance already covered
RECURSIVE Distance(_, _, _, _)
Distance(S, to, n, d) ==
    IF to \in S THEN d
    ELSE Distance(S \cup UNION {Neighbours(t, n) : t \in S}, to, n, d + 1)

(***************************************************************************)
(* Inputs                                                                  *)
(***************************************************************************)

\* Tester._GOALS[2] and Tester._GOALS[3]
GOALS2 == <<"2", "1", "3", " ">>

GOALS3 == <<" ", "1", "2", "3", "4", "5", "6", "7", "8">>

\* a symbol outside the size-2 alphabet
Foreign2 == {"4"}

\* 3x3 starts are at most MaxScramble moves from the 3x3 goal
MaxScramble == 5

\* strings create accepts as n x n boards over a pool of symbols
Boards(pool, n) ==
    {ToSeq(fn, n * n) : fn \in {g \in [1..(n * n) -> pool] : ~BadBoard(ToSeq(g, n * n), n)}}

\* the calls explored: [alg, n, start, goal] with start and goal accepted
\* by create.  DFS is left out on 3x3 boards, where a run can visit the
\* whole 181440-configuration component.
Runs ==
    [alg : Algorithms, n : {1}, start : {<<" ">>}, goal : {<<" ">>}]
    \cup [alg : Algorithms, n : {2},
          start : Boards(Range(GOALS2) \cup Foreign2, 2),
          goal : Boards(Range(GOALS2), 2)]
    \cup [alg : Algorithms \ {"DFS"}, n : {3},
          start : Within({GOALS3}, 3, MaxScramble), goal : {GOALS3}]

(***************************************************************************)
(* The search as a state machine: one action per statement of the driver   *)
(***************************************************************************)

Frame ==
    [pc |-> pc, heap |-> heap, fringe |-> fringe, expanded |-> expanded,
     node |-> node, result |-> result]

\* the frame after a statement becomes the next state
Set(s) ==
    /\ pc' = s.pc
    /\ heap' = s.heap
    /\ fringe' = s.fringe
    /\ expanded' = s.expanded
    /\ node' = s.node
    /\ result' = s.result

At(s) ==
    /\ pc = s.pc
    /\ heap = s.heap
    /\ fringe = s.fringe
    /\ expanded = s.expanded
    /\ node = s.node
    /\ result = s.result

\* history of a step that calls Fringe.add at most once
CountAdd ==
    /\ adds' = IF Len(fringe'.items) > Len(fringe.items)
                THEN adds + 1 ELSE adds
    /\ peak' = IF Len(fringe'.items) > Len(fringe.items)
                THEN max(peak, Len(fringe'.items)) ELSE peak

\* the state at the call of algorithm r.alg on the two created boards
Called(r) ==
    /\ alg = r.alg
    /\ input = <<r.start, r.n>>
    /\ At(call(r.alg, create(r.start, r.n), create(r.goal, r.n)))
    /\ adds = 0
    /\ removed = <<>>
    /\ order = <<>>
    /\ peak = 0

Init == \E r \in Runs : Called(r)

\* lines 137-138
Begin ==
    /\ pc = "start"
    /\ \E s \in {begin(Frame)} : Set(s)
    /\ CountAdd
    /\ UNCHANGED <<alg, input, removed, order>>

\* lines 140-145: the removed node was expanded before
Discard ==
    /\ pc = "loop"
    /\ Len(fringe.items) > 0
    /\ contains(heap, expanded, remove(fringe).ref)
    /\ \E s \in {loop_body(Frame)} : Set(s)
    /\ removed' = Append(removed, remove(fringe).ref)
    /\ UNCHANGED <<alg, input, adds, order, peak>>

\* lines 140-150: the removed node equals the goal
Found ==
    /\ pc = "loop"
    /\ Len(fringe.items) > 0
    /\ ~contains(heap, expanded, remove(fringe).ref)
    /\ eq(heap[remove(fringe).ref], heap[goal_state])
    /\ \E s \in {loop_body(Frame)} : Set(s)
    /\ removed' = Append(removed, remove(fringe).ref)
    /\ UNCHANGED <<alg, input, adds, order, peak>>

\* lines 140-153: the removed node is marked expanded
Expand ==
    /\ pc = "loop"
    /\ Len(fringe.items) > 0
    /\ ~contains(heap, expanded, remove(fringe).ref)
    /\ ~eq(heap[remove(fringe).ref], heap[goal_state])
    /\ \E s \in {loop_body(Frame)} : Set(s)
    /\ removed' = Append(removed, remove(fringe).ref)
    /\ order' = Append(order, remove(fringe).ref)
    /\ UNCHANGED <<alg, input, adds, peak>>

\* line 156
TryUp ==
    /\ pc = "up"
    /\ \E s \in {try_up(Frame)} : Set(s)
    /\ CountAdd
    /\ UNCHANGED <<alg, input, removed, order>>

\* line 157
TryDown ==
    /\ pc = "down"
    /\ \E s \in {try_down(Frame)} : Set(s)
    /\ CountAdd
    /\ UNCHANGED <<alg, input, removed, order>>

\* line 158
TryLeft ==
    /\ pc = "left"
    /\ \E s \in {try_left(Frame)} : Set(s)
    /\ CountAdd
    /\ UNCHANGED <<alg, input, removed, order>>

\* line 159
TryRight ==
    /\ pc = "right"
    /\ \E s \in {try_right(Frame)} : Set(s)
    /\ CountAdd
    /\ UNCHANGED <<alg, input, removed, order>>

\* lines 140, 161: the fringe is empty
Exhaust ==
    /\ pc = "loop"
    /\ Len(fringe.items) = 0
    /\ \E s \in {fail(Frame)} : Set(s)
    /\ UNCHANGED <<alg, input, adds, removed, order, peak>>

Next ==
    \/ Begin
    \/ Discard
    \/ Found
    \/ Expand
    \/ TryUp
    \/ TryDown
    \/ TryLeft
    \/ TryRight
    \/ Exhaust

Spec == Init /\ [][Next]_vars

\* the driver is one sequential function: it keeps executing statements
FairSpec == Spec /\ WF_vars(Next)

TypeOK ==
    /\ pc \in {"start", "loop", "up", "down", "left", "right"} \cup Terminal
    /\ alg \in Algorithms
    /\ Len(heap) >= 2
    /\ \A e \in expanded : e \in 1..Len(heap)
    /\ \A i \in 1..Len(fringe.items) : fringe.items[i] \in 1..Len(heap)

(***************************************************************************)
(* Properties of the search                                                *)
(***************************************************************************)

StartTiles == input[1]

N == input[2]

GoalTiles == heap[goal_state].tiles

SameSymbols == Range(StartTiles) = Range(GoalTiles)

Returned == pc \in {"found", "failed"}

FailureResult == <<None, -1, 0, 0, 0>>

\* the goal is reachable from the start; on 3x3 boards the component is
\* not enumerated, the goal is looked for within MaxScramble moves
Solvable ==
    IF N <= 2 THEN Reachable(StartTiles, GoalTiles, N)
    ELSE GoalTiles \in Within({StartTiles}, N, MaxScramble)

\* C1: over the same symbols, a finished search returns the failure tuple
\* (None, -1, 0, 0, 0) exactly when the goal is not reachable from the
\* start by legal moves, and otherwise returns a state with the goal's tiles.
C1_FailureIffUnreachable ==
    (SameSymbols /\ pc \in Terminal) =>
        IF Solvable
        THEN /\ pc = "found"
             /\ result[1] # None
             /\ heap[result[1]].tiles = GoalTiles
        ELSE /\ pc = "failed"
             /\ result = FailureResult

C1_Witness ==
    /\ SameSymbols
    /\ pc = "failed"
    /\ alg = "AStar"
    /\ ~Reachable(StartTiles, GoalTiles, N)

\* C2: over the same symbols, every run of the driver eventually returns,
\* found or exhausted.
C2_Terminates == SameSymbols => <>Returned

C2_Witness ==
    /\ SameSymbols
    /\ pc = "failed"
    /\ alg = "DFS"
    /\ Len(order) = 12

\* C3: the depth BFS returns is the least number of legal moves from the
\* start to the goal.
C3_BFSOptimal ==
    (pc = "found" /\ alg = "BFS") =>
        result[2] = Distance({StartTiles}, GoalTiles, N, 0)

\* BFS succeeded while a second copy of a configuration sat in the queue
C3_Witness ==
    /\ pc = "found"
    /\ alg = "BFS"
    /\ result[2] = 6
    /\ \E i \in 1..Len(fringe.items) :
          heap[fringe.items[i]].tiles = GoalTiles

\* C4: the depth AStar returns is the depth BFS returns on the same start
\* and goal.
C4_AStarDepthIsBFSDepth ==
    (pc = "found" /\ alg = "AStar") =>
        result[2] = _graph_search(call("BFS", create(StartTiles, N),
                                       create(GoalTiles, N))).result[2]

C4_Witness ==
    /\ pc = "found"
    /\ alg = "AStar"
    /\ N = 3
    /\ result[2] >= 4
    /\ Len(removed) > result[2] + 1

\* C5 as stated: after any run, success or failure, the size of the
\* expanded set equals the returned expandedCount.
C5_ExpandedCountAnyRun == Returned => Cardinality(expanded) = result[4]

\* C5 amended: after a successful run the size of the expanded set equals
\* the returned expandedCount; after a failed run the returned expandedCount
\* is 0 although the expanded set is not empty.
C5_ExpandedCountOnSuccess ==
    /\ pc = "found" => Cardinality(expanded) = result[4]
    /\ pc = "failed" => (result[4] = 0 /\ Cardinality(expanded) > 0)

C5_Witness ==
    /\ pc = "found"
    /\ result[4] >= 3
    /\ result[3] # result[4]

\* C6: no configuration is expanded twice: the tiles of the states passed
\* to expanded.add are pairwise different.
C6_NoDoubleExpansion ==
    \A i, j \in 1..Len(order) :
        i # j => heap[order[i]].tiles # heap[order[j]].tiles

\* a state was removed and discarded because an equal one was expanded
C6_Witness ==
    \E i \in 1..Len(removed) :
        /\ removed[i] \notin Range(order)
        /\ \E j \in 1..Len(order) :
              heap[order[j]].tiles = heap[removed[i]].tiles

\* C7: on two boards built by create with the same n the driver never
\* raises.
C7_NeverRaises == pc # "raised"

Directions == {"up", "down", "left", "right"}

\* the move from pc = d, read off the board: whether the blank may cross
\* towards d, and the cell it lands on
MoveLegal(t, d) ==
    LET b == BlankCell(t)
    IN  IF d = "up" THEN Row(b, N) > 0
        ELSE IF d = "down" THEN Row(b, N) < N - 1
        ELSE IF d = "left" THEN Col(b, N) > 0
        ELSE Col(b, N) < N - 1

MoveTarget(t, d) ==
    LET b == BlankCell(t)
    IN  IF d = "up" THEN b - N
        ELSE IF d = "down" THEN b + N
        ELSE IF d = "left" THEN b - 1
        ELSE b + 1

MoveOK(d) ==
    LET me == heap[node]
    IN  /\ \A i \in 1..Len(heap) : heap'[i] = heap[i]
        /\ IF MoveLegal(me.tiles, d)
           THEN /\ Len(heap') = Len(heap) + 1
                /\ LET child == heap'[Len(heap')]
                   IN  /\ child.tiles = Swap(me.tiles, BlankCell(me.tiles),
                                             MoveTarget(me.tiles, d))
                       /\ Len(child.tiles) = Len(me.tiles)
                       /\ Range(child.tiles) = Range(me.tiles)
                       /\ child.depth = me.depth + 1
                       /\ child.parent = node
           ELSE Len(heap') = Len(heap)

\* C8: each move returns a state iff the blank is not on the edge it would
\* cross; the returned state has the receiver's tiles with the blank and
\* the target swapped (same symbols), the receiver's depth + 1 and the
\* receiver as parent; no existing state, the receiver included, changes.
C8_MoveContract == [][\A d \in Directions : pc = d => MoveOK(d)]_vars

\* a state with the blank on one edge has had its four moves attempted
C8_Witness ==
    /\ pc = "loop"
    /\ N = 3
    /\ node \in Range(order)
    /\ heap[node].depth >= 1
    /\ Cardinality({i \in 1..Len(heap) : heap[i].parent = node}) = 3

(***************************************************************************)
(* SlideBoard.create on arbitrary arguments                                *)
(***************************************************************************)

MaxLen == 5

MaxSize == 2

CreatePool == {" ", "1", "2", "3"}

CreateStrings ==
    UNION {{ToSeq(fn, k) : fn \in [1..k -> CreatePool]} : k \in 0..MaxLen}

CreateInputs == CreateStrings \X ((0 - MaxSize)..MaxSize)

CreateInit ==
    /\ pc = "create"
    /\ input \in CreateInputs
    /\ alg = "BFS"
    /\ heap = <<>>
    /\ fringe = Queue
    /\ expanded = {}
    /\ node = None
    /\ result = <<>>
    /\ adds = 0
    /\ removed = <<>>
    /\ order = <<>>
    /\ peak = 0

\* lines 41-48: a check fails and BadBoard is raised
CreateRaises ==
    /\ pc = "create"
    /\ BadBoard(input[1], input[2])
    /\ pc' = "BadBoard"
    /\ UNCHANGED <<alg, input, heap, fringe, expanded, node, result,
                   adds, removed, order, peak>>

\* line 50: the root state is built and returned
CreateReturns ==
    /\ pc = "create"
    /\ ~BadBoard(input[1], input[2])
    /\ pc' = "created"
    /\ heap' = Append(heap, create(input[1], input[2]))
    /\ UNCHANGED <<alg, input, fringe, expanded, node, result,
                   adds, removed, order, peak>>

CreateNext == CreateRaises \/ CreateReturns

CreateSpec == CreateInit /\ [][CreateNext]_vars

\* n*n pairwise different symbols, one of them the blank
WellFormed(str, n) ==
    /\ n > 0
    /\ Len(str) = n * n
    /\ \E i \in 1..Len(str) : str[i] = " "
    /\ \A i, j \in 1..Len(str) : i # j => str[i] # str[j]

\* C9: create raises BadBoard, building no state, when n <= 0, the length
\* is not n*n, no blank is present or a symbol is duplicated; on every
\* other input it returns a root state with the input as tiles, depth 0,
\* no parent and no heuristic.
C9_CreateValidation ==
    pc # "create" =>
        IF WellFormed(input[1], input[2])
        THEN /\ pc = "created"
             /\ Len(heap) = 1
             /\ heap[1].tiles = input[1]
             /\ heap[1].depth = 0
             /\ heap[1].parent = None
             /\ heap[1].heuristic = None
        ELSE /\ pc = "BadBoard"
             /\ heap = <<>>

C9_Witness ==
    /\ pc = "created"
    /\ input[2] = 2
    /\ input[1][2] = " "

(***************************************************************************)
(* The priority queue under arbitrary add and remove calls                 *)
(***************************************************************************)

MaxAdds == 4

MaxPQDepth == 1

\* the states added: boards at most one move from the size-2 goal, at
\* any depth up to MaxPQDepth
PQTiles == Within({GOALS2}, 2, 1)

PQInit ==
    /\ pc = "pq"
    /\ alg \in {"GBFS", "AStar"}
    /\ input = <<GOALS2, 2>>
    /\ heap = <<create(GOALS2, 2), create(GOALS2, 2)>>
    /\ fringe = new_fringe(alg)
    /\ expanded = {}
    /\ node = None
    /\ result = <<>>
    /\ adds = 0
    /\ removed = <<>>
    /\ order = <<>>
    /\ peak = 0

\* fringe.add(state, goal) on a newly built state
PQAdd ==
    /\ pc = "pq"
    /\ adds < MaxAdds
    /\ \E t \in PQTiles, d \in 0..MaxPQDepth :
         \E r \in {add(Append(heap, SlideBoard(t, 2, index(t, " "), d, None)),
                       fringe, Len(heap) + 1, goal_state)} :
            /\ ~r.raised
            /\ heap' = r.heap
            /\ fringe' = r.fringe
    /\ adds' = adds + 1
    /\ peak' = max(peak, Len(fringe'.items))
    /\ UNCHANGED <<pc, alg, input, expanded, node, result, removed, order>>

\* fringe.remove(): None on an empty fringe
PQRemove ==
    /\ pc = "pq"
    /\ \E rm \in {remove(fringe)} :
         /\ fringe' = rm.fringe
         /\ node' = rm.ref
         /\ removed' = IF rm.ref = None THEN removed
                       ELSE Append(removed, rm.ref)
    /\ UNCHANGED <<pc, alg, input, heap, expanded, result, adds, order, peak>>

PQNext == PQAdd \/ PQRemove

PQSpec == PQInit /\ [][PQNext]_vars

Stored == Range(fringe.items)

FOf(ref) == f_value(fringe.f, heap[ref])

\* C10: every remove on a non-empty priority queue returns a stored entry
\* of minimal f, and among the stored entries of that f the one inserted
\* first (each add inserts a newly built state, so the smaller reference
\* was inserted earlier).
C10_RemoveMinFirstInserted ==
    [][Len(removed') = Len(removed) + 1 =>
         LET r == removed'[Len(removed')]
         IN  /\ r \in Stored
             /\ \A e \in Stored :
                  /\ FOf(r) <= FOf(e)
                  /\ (FOf(e) = FOf(r) /\ e # r) => r < e]_vars

\* an entry was removed while an equal-f entry and a larger-f entry stay
C10_Witness ==
    /\ pc = "pq"
    /\ Len(removed) >= 1
    /\ \E e \in Stored : FOf(e) = FOf(removed[Len(removed)])
    /\ \E e \in Stored : FOf(e) > FOf(removed[Len(removed)])

(***************************************************************************)
(* Tester.py: the solution path                                            *)
(***************************************************************************)

\* the loop of _print_solution: the nodes from `nd` up to the root
RECURSIVE ancestors(_, _)
ancestors(h, nd) ==
    IF nd = None THEN <<>> ELSE <<nd>> \o ancestors(h, h[nd].parent)

reversed(seq) == [i \in 1..Len(seq) |-> seq[Len(seq) + 1 - i]]

\* the path printed goal first, as without reversed()
solution_goal_first(h, nd) ==
    [i \in 1..Len(ancestors(h, nd)) |-> h[ancestors(h, nd)[i]].tiles]

\* _print_solution on a found node: the tiles printed, first line first
solution(h, nd) ==
    [i \in 1..Len(ancestors(h, nd)) |-> h[reversed(ancestors(h, nd))[i]].tiles]

(***************************************************************************)
(* The worked examples                                                     *)
(***************************************************************************)

\* the start "21 3" of the end-to-end example
EXAMPLE_START == <<"2", "1", " ", "3">>

OnExample == N = 2 /\ StartTiles = EXAMPLE_START /\ GoalTiles = GOALS2

\* C11: from "21 3" to "213 " every algorithm returns depth 1, and the
\* path of BFS is ["21 3", "213 "].
C11_ExampleDepthOne ==
    (OnExample /\ pc \in Terminal) =>
        /\ pc = "found"
        /\ result[2] = 1
        /\ alg = "BFS" => solution(heap, result[1]) = <<EXAMPLE_START, GOALS2>>

C11_Witness == OnExample /\ pc = "found" /\ alg = "BFS"

\* the states the moves of the start have returned so far
StartMoves == {i \in 1..Len(heap) : heap[i].parent = start_state}

\* the four moves of the start have been attempted
StartMoved == pc = "loop" /\ node = start_state /\ start_state \in Range(order)

\* C12 as stated: exactly one of the four moves applied to "21 3" returns
\* a state.
C12_OneLegalMove ==
    (N = 2 /\ StartTiles = EXAMPLE_START /\ StartMoved) =>
        Cardinality(StartMoves) = 1

\* C12 amended: exactly two of the four moves applied to "21 3" return a
\* state, up giving " 123" and right giving "213 "; down and left return
\* None.
C12_TwoLegalMoves ==
    (N = 2 /\ StartTiles = EXAMPLE_START /\ node = start_state) =>
        /\ pc \in {"down", "left", "right"} =>
              {heap[i].tiles : i \in StartMoves} = {<<" ", "1", "2", "3">>}
        /\ StartMoved =>
              /\ Cardinality(StartMoves) = 2
              /\ {heap[i].tiles : i \in StartMoves}
                    = {<<" ", "1", "2", "3">>, <<"2", "1", "3", " ">>}

C12_Witness ==
    /\ N = 2
    /\ StartTiles = EXAMPLE_START
    /\ StartMoved
    /\ alg = "DFS"

\* C13: a 2x2 start equal to the goal is returned by every algorithm with
\* depth 0 and no parent, and no state is expanded.
C13_StartIsGoal ==
    (N = 2 /\ StartTiles = GoalTiles /\ pc \in Terminal) =>
        /\ pc = "found"
        /\ result[1] = start_state
        /\ result[2] = 0
        /\ heap[result[1]].parent = None
        /\ solution(heap, result[1]) = <<GoalTiles>>
        /\ result[4] = 0
        /\ expanded = {}
        /\ order = <<>>

C13_Witness ==
    /\ N = 2
    /\ StartTiles = GoalTiles
    /\ pc = "found"
    /\ alg = "GBFS"

(***************************************************************************)
(* generate_heuristic on pairs of boards                                   *)
(***************************************************************************)

\* 3x3 pairs are drawn at most MaxHScramble moves from the 3x3 goal
MaxHScramble == 3

HeuristicPairs ==
    [n : {2}, first : Boards(Range(GOALS2), 2),
     second : Boards(Range(GOALS2), 2)]
    \cup [n : {3}, first : Within({GOALS3}, 3, MaxHScramble),
          second : Within({GOALS3}, 3, MaxHScramble)]

HeuristicInit ==
    /\ pc = "heuristic"
    /\ \E p \in HeuristicPairs :
         /\ input = <<p.first, p.n>>
         /\ heap = <<create(p.first, p.n), create(p.second, p.n)>>
    /\ alg = "GBFS"
    /\ fringe = new_fringe("GBFS")
    /\ expanded = {}
    /\ node = None
    /\ result = <<>>
    /\ adds = 0
    /\ removed = <<>>
    /\ order = <<>>
    /\ peak = 0

\* first.generate_heuristic(second)
GenerateHeuristic ==
    /\ pc = "heuristic"
    /\ pc' = "computed"
    /\ heap' = generate_heuristic(heap, start_state, goal_state)
    /\ UNCHANGED <<alg, input, fringe, expanded, node, result,
                   adds, removed, order, peak>>

HeuristicNext == GenerateHeuristic

HeuristicSpec == HeuristicInit /\ [][HeuristicNext]_vars

\* the second board is reachable from the first; two 3x3 boards drawn
\* are at most 2 * MaxHScramble moves apart
PairReachable ==
    IF N <= 2 THEN Reachable(StartTiles, GoalTiles, N)
    ELSE GoalTiles \in Within({StartTiles}, N, 2 * MaxHScramble)

\* C14: when the second board is reachable from the first, the heuristic
\* of the first relative to the second is at least 0 and at most the least
\* number of legal moves between them.
C14_HeuristicAdmissible ==
    (pc = "computed" /\ PairReachable) =>
        /\ heap[start_state].heuristic >= 0
        /\ heap[start_state].heuristic
              <= Distance({StartTiles}, GoalTiles, N, 0)

C14_Witness ==
    /\ pc = "computed"
    /\ N = 3
    /\ heap[start_state].heuristic >= 2
    /\ heap[start_state].heuristic < Distance({StartTiles}, GoalTiles, N, 0)

(***************************************************************************)
(* Statistics, removal order, heuristics and parent chains of a search     *)
(***************************************************************************)

\* the references the fringe has accepted so far
Inserted == Range(removed) \cup Range(fringe.items)

\* C15: at every point of a run of any algorithm, createdCount is the number
\* of adds performed minus one, createdCount + 1 is the number of states
\* removed plus the current fringe size, and maxSize is the largest fringe
\* size reached after any add.
C15_FringeStatistics ==
    /\ fringe.num_created = adds - 1
    /\ fringe.num_created + 1 = Len(removed) + Len(fringe.items)
    /\ fringe.max_fringe = peak
    /\ pc = "found" => result[3] = adds - 1 /\ result[5] = peak

\* a run that inserted one configuration twice and whose fringe has shrunk
\* below its largest size
C15_Witness ==
    /\ pc = "found"
    /\ Len(removed) >= 3
    /\ peak > Len(fringe.items)
    /\ \E a, b \in Inserted : a # b /\ heap[a].tiles = heap[b].tiles

\* the depths of the states referenced by seq, in order
depths(seq) == [i \in 1..Len(seq) |-> heap[seq[i]].depth]

NonDecreasing(seq) == \A i, j \in 1..Len(seq) : i < j => seq[i] <= seq[j]

\* C16: in a BFS run the removed states have non-decreasing depth, and no
\* state still in the queue is shallower than a state already removed.
C16_BFSRemovesByDepth ==
    alg = "BFS" => NonDecreasing(depths(removed \o fringe.items))

\* a BFS run that removed states of three depths while deeper ones wait
C16_Witness ==
    /\ alg = "BFS"
    /\ Len(removed) >= 4
    /\ heap[removed[Len(removed)]].depth >= 2
    /\ \E i \in 1..Len(fringe.items) :
          heap[fringe.items[i]].depth > heap[removed[Len(removed)]].depth

RECURSIVE Sum(_, _)
Sum(fn, S) ==
    IF S = {} THEN 0
    ELSE LET x == CHOOSE y \in S : TRUE IN fn[x] + Sum(fn, S \ {x})

\* the cell of symbol x on board t
Cell(t, x) == CHOOSE i \in 1..Len(t) : t[i] = x

\* sum over the tiles of a, the blank left out, of the row distance plus
\* the column distance between the tile's cells on a and on b
Manhattan(a, b, n) ==
    Sum([i \in 1..Len(a) |->
            abs(Row(i, n) - Row(Cell(b, a[i]), n))
              + abs(Col(i, n) - Col(Cell(b, a[i]), n))],
        {i \in 1..Len(a) : a[i] # " "})

Informed == alg \in {"GBFS", "AStar"}

\* C17 as stated: in a GBFS or AStar run every stored state carries its
\* Manhattan distance to the goal and, when the run returns, the heuristic
\* of each state object has been written exactly once; in a BFS or DFS run
\* every heuristic stays absent.
C17_EveryObjectWrittenOnce ==
    /\ Informed =>
          \A o \in Inserted :
              heap[o].heuristic = Manhattan(heap[o].tiles, GoalTiles, N)
    /\ (Informed /\ Returned) =>
          \A o \in 1..Len(heap) : heap[o].writes = 1
    /\ ~Informed => \A o \in 1..Len(heap) : heap[o].heuristic = None

\* C17 amended: in a GBFS or AStar run the heuristic of a state object is
\* written exactly once, with its Manhattan distance to the goal, when the
\* object is inserted into the fringe, and never otherwise: the goal object
\* and the successors discarded as already expanded keep it absent.  In a
\* BFS or DFS run every heuristic stays absent.
C17_WrittenOnceOnInsertion ==
    \A o \in 1..Len(heap) :
        IF Informed /\ o \in Inserted
        THEN /\ heap[o].writes = 1
             /\ heap[o].heuristic = Manhattan(heap[o].tiles, GoalTiles, N)
        ELSE /\ heap[o].writes = 0
             /\ heap[o].heuristic = None

\* an informed run that returned with positive heuristics stored and a
\* successor that was created but never inserted
C17_Witness ==
    /\ Informed
    /\ pc = "found"
    /\ \E o \in Inserted : heap[o].heuristic >= 2
    /\ \E o \in 1..Len(heap) :
          o \notin Inserted /\ o # goal_state /\ heap[o].parent # None

\* the object k parent links above object o, None past the root
RECURSIVE Up(_, _)
Up(o, k) ==
    IF k = 0 \/ o = None THEN o ELSE Up(heap[o].parent, k - 1)

\* C18: on success, following the parent references from the returned state
\* reaches the start state, the one without a parent, after exactly `depth`
\* links; every state of the chain comes from its parent by one legal blank
\* move; so the chain read from its root is a valid move sequence from the
\* start to the goal whose length is the reported depth.
C18_ParentChain ==
    pc = "found" =>
        /\ result[2] = heap[result[1]].depth
        /\ \A k \in 0..(result[2] - 1) :
              /\ Up(result[1], k) # None
              /\ heap[Up(result[1], k)].parent # None
              /\ heap[Up(result[1], k)].tiles
                    \in Neighbours(heap[Up(result[1], k + 1)].tiles, N)
        /\ Up(result[1], result[2]) = start_state
        /\ heap[start_state].parent = None
        /\ heap[start_state].tiles = StartTiles
        /\ heap[result[1]].tiles = GoalTiles

\* a success whose chain has at least four links and was not found by
\* breadth-first search
C18_Witness ==
    /\ pc = "found"
    /\ alg # "BFS"
    /\ result[2] >= 4
    /\ Up(result[1], result[2]) = start_state

\* BFS called on the start and goal of the current run, run to its end
BFSRun ==
    _graph_search(call("BFS", create(StartTiles, N), create(GoalTiles, N)))

\* C19: on every solvable instance AStar succeeds, as BFS does, and the
\* expandedCount AStar returns is at most the one BFS returns for the same
\* start and goal.
C19_AStarExpandsNoMoreThanBFS ==
    (alg = "AStar" /\ pc \in Terminal /\ Solvable) =>
        /\ pc = "found"
        /\ BFSRun.pc = "found"
        /\ result[4] <= BFSRun.result[4]

\* a 3x3 instance on which AStar expands several states and BFS more
C19_Witness ==
    /\ alg = "AStar"
    /\ pc = "found"
    /\ N = 3
    /\ result[4] >= 4
    /\ result[4] < BFSRun.result[4]

(***************************************************************************)
(* Tester.py: _parse_args on three command-line arguments whose first is   *)
(* an integer.  input is <<sys.argv[2], size>>, alg is sys.argv[3].         *)
(***************************************************************************)

_MIN_SIZE == 2

_MAX_SIZE == 9

\* _GOALS[size], for the sizes drawn below
_GOALS(size) == IF size = 2 THEN GOALS2 ELSE GOALS3

\* line 68
size_out_of_range(size) == size < _MIN_SIZE \/ size > _MAX_SIZE

\* lines 74-75: len(set(arg)) != len(_GOALS[size])
\*              or any([char not in _GOALS[size] for char in arg])
invalid_characters(arg, size) ==
    \/ Cardinality(Range(arg)) # Len(_GOALS(size))
    \/ \E i \in 1..Len(arg) : arg[i] \notin Range(_GOALS(size))

\* lines 87-90: _ALGORITHMS[algorithm_name] raises KeyError
unsupported_algorithm(name) == name \notin Algorithms

\* longest size-2 argument drawn
MaxArgLen == 5

\* size-2 arguments: every string up to MaxArgLen over the size-2 alphabet
\* and one more symbol
ParseStrings2 ==
    UNION {{ToSeq(fn, k) : fn \in [1..k -> Range(GOALS2) \cup Foreign2]} :
              k \in 0..MaxArgLen}

\* size-3 arguments: boards near the goal, and the same with one more
\* character of the alphabet at the end
ParseStrings3 ==
    Within({GOALS3}, 3, 2)
        \cup {Append(t, c) : t \in Within({GOALS3}, 3, 2), c \in Range(GOALS3)}

ParseInputs ==
    (ParseStrings2 \X {_MIN_SIZE - 1, 2, _MAX_SIZE + 1})
        \cup (ParseStrings3 \X {3})

ParseInit ==
    /\ pc = "parse"
    /\ input \in ParseInputs
    /\ alg \in Algorithms \cup {"IDS"}
    /\ heap = <<>>
    /\ fringe = Queue
    /\ expanded = {}
    /\ node = None
    /\ result = <<>>
    /\ adds = 0
    /\ removed = <<>>
    /\ order = <<>>
    /\ peak = 0

\* lines 68-71: ValueError, the size is out of range
ParseSizeError ==
    /\ pc = "parse"
    /\ size_out_of_range(input[2])
    /\ pc' = "ValueError"
    /\ UNCHANGED <<alg, input, heap, fringe, expanded, node, result,
                   adds, removed, order, peak>>

\* lines 74-79: ValueError, the character check fails
ParseCharactersError ==
    /\ pc = "parse"
    /\ ~size_out_of_range(input[2])
    /\ invalid_characters(input[1], input[2])
    /\ pc' = "ValueError"
    /\ UNCHANGED <<alg, input, heap, fringe, expanded, node, result,
                   adds, removed, order, peak>>

\* line 84: the character check passed and create raises BadBoard
ParseBadBoard ==
    /\ pc = "parse"
    /\ ~size_out_of_range(input[2])
    /\ ~invalid_characters(input[1], input[2])
    /\ BadBoard(input[1], input[2])
    /\ pc' = "BadBoard"
    /\ UNCHANGED <<alg, input, heap, fringe, expanded, node, result,
                   adds, removed, order, peak>>

\* lines 84-93: create returns, then ValueError for the algorithm name
ParseAlgorithmError ==
    /\ pc = "parse"
    /\ ~size_out_of_range(input[2])
    /\ ~invalid_characters(input[1], input[2])
    /\ ~BadBoard(input[1], input[2])
    /\ unsupported_algorithm(alg)
    /\ pc' = "ValueError"
    /\ heap' = Append(heap, create(input[1], input[2]))
    /\ UNCHANGED <<alg, input, fringe, expanded, node, result,
                   adds, removed, order, peak>>

\* lines 84-95: create returns and the arguments are returned
ParseReturns ==
    /\ pc = "parse"
    /\ ~size_out_of_range(input[2])
    /\ ~invalid_characters(input[1], input[2])
    /\ ~BadBoard(input[1], input[2])
    /\ ~unsupported_algorithm(alg)
    /\ pc' = "parsed"
    /\ heap' = Append(heap, create(input[1], input[2]))
    /\ UNCHANGED <<alg, input, fringe, expanded, node, result,
                   adds, removed, order, peak>>

ParseNext ==
    \/ ParseSizeError
    \/ ParseCharactersError
    \/ ParseBadBoard
    \/ ParseAlgorithmError
    \/ ParseReturns

ParseSpec == ParseInit /\ [][ParseNext]_vars

\* C20: an initial-configuration string that passes the character check
\* for a size in [2, 9] is accepted by create: the call raises no BadBoard.
C20_CheckAvoidsBadBoard ==
    (/\ pc # "parse"
     /\ ~size_out_of_range(input[2])
     /\ ~invalid_characters(input[1], input[2])) => pc # "BadBoard"

====
